---- MODULE Spec2Model ----
(***************************************************************************)
(* POS System Backend API (src/main.py): the connection provider           *)
(* get_db_connection, the product lookup search_product and the purchase   *)
(* handler purchase, run against a transactional store (MySQL through      *)
(* pymysql, autocommit disabled).                                          *)
(*                                                                         *)
(* Each request is a process with its own connection.  One action is one   *)
(* step of a handler up to and including its next call into the store, so  *)
(* requests interleave exactly at the store calls.  The store keeps the    *)
(* committed tables t_txn and t_txn_dtl, one uncommitted write set per     *)
(* connection, and the AUTO_INCREMENT counter of t_txn.  Every store call  *)
(* may raise pymysql.Error.  A commit that raises has committed nothing,   *)
(* and the server discards the uncommitted writes of a connection that is  *)
(* closed.                                                                 *)
(***************************************************************************)
EXTENDS Integers, Sequences, FiniteSets, TLC

(* ------------------------------ bounds -------------------------------- *)
\* Number of request slots.
NumReq == 2
\* Longest item list of a purchase request.
MaxItems == 2
\* Largest valid quantity of one item that the model draws.
MaxQty == 2
\* Longest product code of a lookup request.
MaxCodeLen == 3

Reqs == 1..NumReq

(* --------------------------- configuration ----------------------------- *)
\* Config.DB_HOST, DB_USER, DB_PASSWORD, DB_NAME: each "" when the
\* environment does not set it.
ConfigChoices == [DB_HOST : {"", "db.example"}, DB_USER : {"", "pos"},
                  DB_PASSWORD : {"", "secret"}, DB_NAME : {"", "posdb"}]

ConfigSet == [DB_HOST |-> "db.example", DB_USER |-> "pos",
              DB_PASSWORD |-> "secret", DB_NAME |-> "posdb"]

(* -------------------- math.floor(prd_price / 1.1) ---------------------- *)
(* prd_price / 1.1 is an IEEE-754 binary64 division: the literal 1.1 is    *)
(* the double 0x1.199999999999ap+0 = DivisorHi * 2^27 + DivisorLo over     *)
(* 2^52, the quotient is rounded to 53 significant bits, ties to even, and *)
(* math.floor takes the floor of the rounded quotient.  The 54-bit         *)
(* integers of the division are kept as two limbs [hi, lo] of 27 bits.     *)
Limb == 2^27
DivisorHi == 36909875
DivisorLo == 26843546
Divisor == [hi |-> DivisorHi, lo |-> DivisorLo]

\* 2 * a + bit
Twice(a, bit) ==
    LET lo2 == 2 * a.lo + bit
    IN  [hi |-> 2 * a.hi + (lo2 \div Limb), lo |-> lo2 % Limb]

GreaterEq(a, b) == a.hi > b.hi \/ (a.hi = b.hi /\ a.lo >= b.lo)

\* a - b, for a >= b
Minus(a, b) ==
    IF a.lo >= b.lo THEN [hi |-> a.hi - b.hi, lo |-> a.lo - b.lo]
    ELSE [hi |-> a.hi - b.hi - 1, lo |-> a.lo + Limb - b.lo]

DivState == [q : [hi : Nat, lo : Nat], r : [hi : Nat, lo : Nat], s : Nat]

\* Binary long division by the divisor's 53-bit significand D: with the
\* dividend p, q = floor(p * 2^s / D) and r = p * 2^s - q * D.  Stops when
\* q has 54 bits (53 of significand and a guard bit).
DivLoop[st \in DivState] ==
    IF st.q.hi >= 2^26 THEN st
    ELSE LET r2 == Twice(st.r, 0)
         IN  IF GreaterEq(r2, Divisor)
             THEN DivLoop[[q |-> Twice(st.q, 1), r |-> Minus(r2, Divisor),
                           s |-> st.s + 1]]
             ELSE DivLoop[[q |-> Twice(st.q, 0), r |-> r2, s |-> st.s + 1]]

\* math.floor(p / 1.1) for an integer 0 < p < 2^26.
FloorDiv1_1(p) ==
    LET \* p * 2^26 < D, so the first 26 quotient bits are 0
        d == DivLoop[[q |-> [hi |-> 0, lo |-> 0],
                      r |-> [hi |-> p \div 2, lo |-> (p % 2) * 2^26],
                      s |-> 26]]
        guard == d.q.lo % 2
        sticky == d.r.hi # 0 \/ d.r.lo # 0
        \* the 53-bit significand, truncated
        m0 == [hi |-> d.q.hi \div 2,
               lo |-> (d.q.lo + (d.q.hi % 2) * Limb) \div 2]
        up == guard = 1 /\ (sticky \/ m0.lo % 2 = 1)
        \* round to nearest, ties to even
        m == IF ~up THEN m0
             ELSE IF m0.lo + 1 < Limb THEN [hi |-> m0.hi, lo |-> m0.lo + 1]
             ELSE [hi |-> m0.hi + 1, lo |-> 0]
        \* p / 1.1 = p * 2^52 / D, so the rounded quotient is m / 2^(s - 53),
        \* and s - 53 >= 27 as p < 2^26: its floor is a shift of m.hi
    IN  m.hi \div (2^(d.s - 53 - 27))

RECURSIVE SumSeq(_)
SumSeq(s) == IF s = <<>> THEN 0 ELSE Head(s) + SumSeq(Tail(s))


(* ------------------------- request contracts --------------------------- *)
\* A field the JSON body does not hold, and a field it holds as null.
Omitted == "<omitted>"
Null == "<null>"

QuantityMax == 9999
MaxLength == 20

\* PurchaseItem: prd_price gt 0, quantity gt 0 and le 9999.
ValidItem(item) ==
    /\ item.prd_price > 0
    /\ item.quantity > 0
    /\ item.quantity <= QuantityMax

\* PurchaseRequest: emp_cd is Optional[str], store_cd and pos_no are str,
\* each of at most 20 characters; items holds at least one valid item.
ValidPurchase(b) ==
    /\ b.emp_cd \in {Omitted, Null} \/ Len(b.emp_cd) <= MaxLength
    /\ b.store_cd # Null
    /\ b.store_cd = Omitted \/ Len(b.store_cd) <= MaxLength
    /\ b.pos_no # Null
    /\ b.pos_no = Omitted \/ Len(b.pos_no) <= MaxLength
    /\ Len(b.items) >= 1
    /\ \A i \in 1..Len(b.items) : ValidItem(b.items[i])

\* The PurchaseRequest built from a valid body: the Field defaults fill the
\* omitted fields.
Request(b) ==
    [emp_cd |-> IF b.emp_cd = Omitted THEN "" ELSE b.emp_cd,
     store_cd |-> IF b.store_cd = Omitted THEN "30" ELSE b.store_cd,
     pos_no |-> IF b.pos_no = Omitted THEN "90" ELSE b.pos_no,
     items |-> b.items]

(* ------------------------------ purchase ------------------------------- *)
\* sum(item.prd_price * item.quantity for item in request.items)
TotalAmount(items) ==
    SumSeq([i \in 1..Len(items) |-> items[i].prd_price * items[i].quantity])

\* sum(math.floor(item.prd_price / 1.1) * item.quantity for item in ...)
TotalAmountExTax(items) ==
    SumSeq([i \in 1..Len(items) |->
                FloorDiv1_1(items[i].prd_price) * items[i].quantity])

\* A mutant of ResolveEmpCd: only a null emp_cd gets the sentinel.
ResolveEmpCdNullOnly(emp_cd) ==
    IF emp_cd = Null THEN "9999999999" ELSE emp_cd

\* request.emp_cd or "9999999999": None and "" are falsy.
ResolveEmpCd(emp_cd) ==
    IF emp_cd = Null \/ emp_cd = "" THEN "9999999999" ELSE emp_cd

\* A mutant of UnitsOf: one detail row per item.
UnitsOfOne(item) == 1

\* range(item.quantity): the number of detail rows of one item.
UnitsOf(item) == item.quantity

(* ------------------------------- lookup -------------------------------- *)
\* str.strip() on a code held as a sequence of characters.
Whitespace == {" ", "\t"}

RECURSIVE LStrip(_)
LStrip(s) ==
    IF s # <<>> /\ Head(s) \in Whitespace THEN LStrip(Tail(s)) ELSE s

RECURSIVE RStrip(_)
RStrip(s) ==
    IF s # <<>> /\ s[Len(s)] \in Whitespace
    THEN RStrip(SubSeq(s, 1, Len(s) - 1)) ELSE s

\* A mutant of Strip: only the leading whitespace goes.
StripLeft(s) == LStrip(s)

Strip(s) == RStrip(LStrip(s))

\* The catalog m_product in the order the store scans it.  Two rows share
\* the code "a".
m_product ==
    << [PRD_ID |-> 1, CODE |-> <<"a">>, NAME |-> "Tea", PRICE |-> 108],
       [PRD_ID |-> 2, CODE |-> <<"a", "b">>, NAME |-> "Cake", PRICE |-> 220],
       [PRD_ID |-> 3, CODE |-> <<"a">>, NAME |-> "Tea (old)", PRICE |-> 110] >>

\* SELECT PRD_ID as prd_id, CODE as prd_code, NAME as prd_name, PRICE as
\* prd_price FROM m_product WHERE CODE = %s LIMIT 1, then fetchone(): the
\* empty sequence stands for None.
RECURSIVE FirstMatch(_, _)
FirstMatch(rows, code) ==
    IF rows = <<>> THEN <<>>
    ELSE IF Head(rows).CODE = code
         THEN << [prd_id |-> Head(rows).PRD_ID, prd_code |-> Head(rows).CODE,
                  prd_name |-> Head(rows).NAME,
                  prd_price |-> Head(rows).PRICE] >>
         ELSE FirstMatch(Tail(rows), code)

(* ------------------------------ responses ------------------------------ *)
HTTP_200_OK == 200
HTTP_400_BAD_REQUEST == 400
HTTP_422_UNPROCESSABLE == 422
HTTP_500_INTERNAL_SERVER_ERROR == 500
HTTP_503_SERVICE_UNAVAILABLE == 503

\* What the client receives.  status 0: nothing yet.
Response(status, detail, cause) ==
    [status |-> status, detail |-> detail, cause |-> cause, product |-> <<>>,
     success |-> FALSE, total_amount |-> 0, total_amount_ex_tax |-> 0,
     transaction_id |-> 0]

NoResponse == Response(0, "", "")

\* HTTPException(503, the database settings are incomplete)
ConfigIncomplete == Response(HTTP_503_SERVICE_UNAVAILABLE, "config_incomplete", "")

\* HTTPException(503, cannot connect to the database)
DatabaseUnreachable == Response(HTTP_503_SERVICE_UNAVAILABLE, "cannot_connect", "")

\* HTTPException(400, a product code is required)
CodeRequired == Response(HTTP_400_BAD_REQUEST, "code_required", "")

\* HTTPException(500, f"the purchase failed: {str(e)}")
PurchaseFailed(e) ==
    Response(HTTP_500_INTERNAL_SERVER_ERROR, "purchase_failed", e)

\* The framework's answer to a request body that fails validation.
ValidationFailed == Response(HTTP_422_UNPROCESSABLE, "validation_error", "")

\* The framework's answer to an exception no handler catches.
Unhandled(e) ==
    Response(HTTP_500_INTERNAL_SERVER_ERROR, "internal_server_error", e)

\* ProductSearchResponse(product=...)
ProductSearchResponse(product) ==
    [Response(HTTP_200_OK, "", "") EXCEPT !.product = product]

\* PurchaseResponse(success=True, ...)
PurchaseResponse(total_amount, total_amount_ex_tax, trd_id) ==
    [Response(HTTP_200_OK, "", "") EXCEPT
        !.success = TRUE, !.total_amount = total_amount,
        !.total_amount_ex_tax = total_amount_ex_tax,
        !.transaction_id = trd_id]

(* ------------------------------- inputs -------------------------------- *)
NoCode == [tag |-> "missing", chars |-> <<>>]

\* No request in this slot.
NoRequest ==
    [kind |-> "none", code |-> NoCode, emp_cd |-> Omitted,
     store_cd |-> Omitted, pos_no |-> Omitted, items |-> <<>>]

Item(prd_id, prd_code, prd_name, prd_price, quantity) ==
    [prd_id |-> prd_id, prd_code |-> prd_code, prd_name |-> prd_name,
     prd_price |-> prd_price, quantity |-> quantity]

Tea(quantity) == Item(1, <<"a">>, "Tea", 108, quantity)
Cake(quantity) == Item(2, <<"a", "b">>, "Cake", 220, quantity)

\* The valid items, and three the contract rejects.
ItemChoices ==
    {Tea(q) : q \in 1..MaxQty} \cup {Cake(q) : q \in 1..MaxQty}
    \cup {Tea(0), Tea(QuantityMax + 1), Item(4, <<"b">>, "Bag", 0, 1)}

ItemLists == UNION {[1..n -> ItemChoices] : n \in 0..MaxItems}

\* emp_cd, store_cd, pos_no: omitted, null, empty, given, too long.
HeaderChoices ==
    { <<Omitted, Omitted, Omitted>>, <<Null, "31", Omitted>>,
      <<"", Omitted, "91">>, <<"E0001", "31", "91">>,
      <<"123456789012345678901", "31", "91">>, <<"E0001", Null, "91">> }

PurchaseBodies ==
    {[kind |-> "purchase", code |-> NoCode, emp_cd |-> h[1],
      store_cd |-> h[2], pos_no |-> h[3], items |-> l] :
        h \in HeaderChoices, l \in ItemLists}

CodeChars == {" ", "a", "b"}

CodeChoices ==
    {NoCode, [tag |-> "null", chars |-> <<>>]}
    \cup {[tag |-> "str", chars |-> c] :
            c \in UNION {[1..n -> CodeChars] : n \in 0..MaxCodeLen}}

SearchBodies ==
    {[kind |-> "search", code |-> c, emp_cd |-> Omitted,
      store_cd |-> Omitted, pos_no |-> Omitted, items |-> <<>>] :
        c \in CodeChoices}

Bodies == PurchaseBodies \cup SearchBodies

PurchaseOf(items) ==
    [kind |-> "purchase", code |-> NoCode, emp_cd |-> Omitted,
     store_cd |-> Omitted, pos_no |-> Omitted, items |-> items]

\* The requests that run side by side.
ConcurrentBodies ==
    {PurchaseOf(<<Cake(2)>>), PurchaseOf(<<Tea(1), Cake(1)>>),
     [kind |-> "search", code |-> [tag |-> "str", chars |-> <<"a">>],
      emp_cd |-> Omitted, store_cd |-> Omitted, pos_no |-> Omitted,
      items |-> <<>>]}

(* -------------------------------- state -------------------------------- *)
VARIABLES
    config,     \* class Config
    body,       \* body[r]: the JSON body of request r
    pc,         \* pc[r]: where the handler of request r stands
    conn,       \* conn[r]: unacquired, config_error, connect_error, open, closed
    calls,      \* calls[r]: the calls request r has made on the store, in order
    db_errors,  \* db_errors[r]: the calls among them that raised pymysql.Error
    loc,        \* loc[r]: the locals of purchase
    outcome,    \* outcome[r]: the response or HTTP error of request r
    t_txn,      \* the committed rows of t_txn, in commit order
    t_txn_dtl,  \* the committed rows of t_txn_dtl, in commit order
    pend_txn,   \* pend_txn[r]: the uncommitted t_txn rows of r's connection
    pend_dtl,   \* pend_dtl[r]: the uncommitted t_txn_dtl rows of r's connection
    autoInc     \* the next AUTO_INCREMENT value of t_txn.TRD_ID

vars == <<config, body, pc, conn, calls, db_errors, loc, outcome, t_txn,
          t_txn_dtl, pend_txn, pend_dtl, autoInc>>

NoLocals ==
    [total_amount |-> 0, total_amount_ex_tax |-> 0, trd_id |-> 0,
     dtl_id |-> 0, i |-> 0, u |-> 0]

InitWith(bodies, configs) ==
    /\ config \in configs
    /\ body \in bodies
    /\ pc = [r \in Reqs |-> IF body[r].kind = "none" THEN "done" ELSE "start"]
    /\ conn = [r \in Reqs |-> "unacquired"]
    /\ calls = [r \in Reqs |-> <<>>]
    /\ db_errors = [r \in Reqs |-> <<>>]
    /\ loc = [r \in Reqs |-> NoLocals]
    /\ outcome = [r \in Reqs |-> NoResponse]
    /\ t_txn = <<>>
    /\ t_txn_dtl = <<>>
    /\ pend_txn = [r \in Reqs |-> <<>>]
    /\ pend_dtl = [r \in Reqs |-> <<>>]
    /\ autoInc = 1

\* One request of any kind, under any configuration.
Init ==
    InitWith({[r \in Reqs |-> IF r = 1 THEN b ELSE NoRequest] : b \in Bodies},
             ConfigChoices)

\* NumReq requests side by side, the store configured.
InitConcurrent == InitWith([Reqs -> ConcurrentBodies], {ConfigSet})

(* -------------------------- get_db_connection -------------------------- *)
\* A mutant of ConfigComplete: the test health_check makes.
ConfigCompleteHostUser == config.DB_HOST # "" /\ config.DB_USER # ""

\* all([Config.DB_HOST, Config.DB_USER, Config.DB_PASSWORD, Config.DB_NAME])
ConfigComplete ==
    /\ config.DB_HOST # ""
    /\ config.DB_USER # ""
    /\ config.DB_PASSWORD # ""
    /\ config.DB_NAME # ""

\* autocommit=False in pymysql.connect.
AutocommitOn == TRUE

Autocommit == FALSE

\* with get_db_connection() as conn: up to the yield.  ok: whether
\* pymysql.connect succeeds.  On success the body of the with statement
\* runs from next; otherwise the HTTPException leaves the handler (conn is
\* None and the finally clause closes nothing).
Enter(r, ok, next) ==
    IF ~ConfigComplete
    THEN /\ conn' = [conn EXCEPT ![r] = "config_error"]
         /\ outcome' = [outcome EXCEPT ![r] = ConfigIncomplete]
         /\ pc' = [pc EXCEPT ![r] = "done"]
         /\ UNCHANGED <<calls, db_errors>>
    ELSE /\ calls' = [calls EXCEPT ![r] = Append(@, "connect")]
         /\ IF ok
            THEN /\ conn' = [conn EXCEPT ![r] = "open"]
                 /\ pc' = [pc EXCEPT ![r] = next]
                 /\ UNCHANGED <<outcome, db_errors>>
            ELSE /\ conn' = [conn EXCEPT ![r] = "connect_error"]
                 /\ db_errors' = [db_errors EXCEPT ![r] = Append(@, "connect")]
                 /\ outcome' = [outcome EXCEPT ![r] = DatabaseUnreachable]
                 /\ pc' = [pc EXCEPT ![r] = "done"]

\* A mutant of Finally: the connection is closed on the normal path only.
FinallyOnSuccess(r) ==
    /\ pc[r] = "finally"
    /\ pc' = [pc EXCEPT ![r] = "done"]
    /\ IF conn[r] = "open" /\ outcome[r].status = HTTP_200_OK
       THEN /\ conn' = [conn EXCEPT ![r] = "closed"]
            /\ calls' = [calls EXCEPT ![r] = Append(@, "close")]
            /\ pend_txn' = [pend_txn EXCEPT ![r] = <<>>]
            /\ pend_dtl' = [pend_dtl EXCEPT ![r] = <<>>]
       ELSE UNCHANGED <<conn, calls, pend_txn, pend_dtl>>
    /\ UNCHANGED <<config, body, db_errors, loc, outcome, t_txn, t_txn_dtl,
                   autoInc>>

\* finally: if conn: conn.close().  The server drops what the connection
\* has not committed; the response or the HTTPException then reaches the
\* client.
Finally(r) ==
    /\ pc[r] = "finally"
    /\ pc' = [pc EXCEPT ![r] = "done"]
    /\ IF conn[r] = "open"
       THEN /\ conn' = [conn EXCEPT ![r] = "closed"]
            /\ calls' = [calls EXCEPT ![r] = Append(@, "close")]
            /\ pend_txn' = [pend_txn EXCEPT ![r] = <<>>]
            /\ pend_dtl' = [pend_dtl EXCEPT ![r] = <<>>]
       ELSE UNCHANGED <<conn, calls, pend_txn, pend_dtl>>
    /\ UNCHANGED <<config, body, db_errors, loc, outcome, t_txn, t_txn_dtl,
                   autoInc>>

(* ---------------------------- search_product --------------------------- *)
\* request_body.get("code", "").strip(), the empty-code test, and the entry
\* into get_db_connection.  A null code has no strip: AttributeError.
Search_Enter(r) ==
    /\ pc[r] = "start"
    /\ body[r].kind = "search"
    /\ \E ok \in BOOLEAN :
         IF body[r].code.tag = "null"
         THEN /\ outcome' = [outcome EXCEPT ![r] = Unhandled("AttributeError")]
              /\ pc' = [pc EXCEPT ![r] = "done"]
              /\ UNCHANGED <<conn, calls, db_errors>>
         ELSE IF Strip(body[r].code.chars) = <<>>
         THEN /\ outcome' = [outcome EXCEPT ![r] = CodeRequired]
              /\ pc' = [pc EXCEPT ![r] = "done"]
              /\ UNCHANGED <<conn, calls, db_errors>>
         ELSE Enter(r, ok, "query")
    /\ UNCHANGED <<config, body, loc, t_txn, t_txn_dtl, pend_txn, pend_dtl,
                   autoInc>>

\* cursor.execute(query, (product_code,)), fetchone() and the return.  A
\* pymysql.Error leaves the with body and is caught around the yield of
\* get_db_connection, which raises the 503.  Product(**result) validates
\* prd_price gt 0.
Search_Query(r) ==
    /\ pc[r] = "query"
    /\ calls' = [calls EXCEPT ![r] = Append(@, "select")]
    /\ pc' = [pc EXCEPT ![r] = "finally"]
    /\ \E ok \in BOOLEAN :
         IF ok
         THEN LET result == FirstMatch(m_product, Strip(body[r].code.chars))
              IN  /\ outcome' = [outcome EXCEPT ![r] =
                        IF result # <<>> /\ result[1].prd_price <= 0
                        THEN Unhandled("ValidationError")
                        ELSE ProductSearchResponse(result)]
                  /\ UNCHANGED db_errors
         ELSE /\ db_errors' = [db_errors EXCEPT ![r] = Append(@, "select")]
              /\ outcome' = [outcome EXCEPT ![r] = DatabaseUnreachable]
    /\ UNCHANGED <<config, body, conn, loc, t_txn, t_txn_dtl, pend_txn,
                   pend_dtl, autoInc>>

(* ------------------------------- purchase ------------------------------ *)
\* The request validation, the two totals, and the entry into
\* get_db_connection.
Purchase_Enter(r) ==
    /\ pc[r] = "start"
    /\ body[r].kind = "purchase"
    /\ \E ok \in BOOLEAN :
         IF ~ValidPurchase(body[r])
         THEN /\ outcome' = [outcome EXCEPT ![r] = ValidationFailed]
              /\ pc' = [pc EXCEPT ![r] = "done"]
              /\ UNCHANGED <<conn, calls, db_errors, loc>>
         ELSE /\ loc' = [loc EXCEPT ![r] =
                    [@ EXCEPT
                       !.total_amount = TotalAmount(body[r].items),
                       !.total_amount_ex_tax = TotalAmountExTax(body[r].items)]]
              /\ Enter(r, ok, "insert_txn")
    /\ UNCHANGED <<config, body, t_txn, t_txn_dtl, pend_txn, pend_dtl,
                   autoInc>>

\* A mutant of LastRowId: the id is one more than the committed rows.
LastRowIdFromCount == Len(t_txn) + 1

\* cursor.lastrowid: the AUTO_INCREMENT value the store gave the inserted
\* t_txn row.
LastRowId == autoInc

\* cursor.execute(insert_txn, ...) and trd_id = cursor.lastrowid; dtl_id = 1
\* and the first item of the loop.  DATETIME is left out: nothing reads it.
Purchase_InsertTxn(r) ==
    /\ pc[r] = "insert_txn"
    /\ calls' = [calls EXCEPT ![r] = Append(@, "insert_txn")]
    /\ \E ok \in BOOLEAN :
         IF ok
         THEN LET request == Request(body[r])
                  row == [TRD_ID |-> LastRowId,
                          EMP_CD |-> ResolveEmpCd(request.emp_cd),
                          STORE_CD |-> request.store_cd,
                          POS_NO |-> request.pos_no,
                          TOTAL_AMT |-> loc[r].total_amount,
                          TTL_AMT_EX_TAX |-> loc[r].total_amount_ex_tax]
              IN  /\ IF Autocommit
                     THEN /\ t_txn' = Append(t_txn, row)
                          /\ UNCHANGED pend_txn
                     ELSE /\ pend_txn' = [pend_txn EXCEPT ![r] = Append(@, row)]
                          /\ UNCHANGED t_txn
                  /\ autoInc' = autoInc + 1
                  /\ loc' = [loc EXCEPT ![r] =
                        [@ EXCEPT !.trd_id = LastRowId, !.dtl_id = 1,
                                  !.i = 1, !.u = 0]]
                  /\ pc' = [pc EXCEPT ![r] = "insert_dtl"]
                  /\ UNCHANGED db_errors
         ELSE /\ db_errors' = [db_errors EXCEPT ![r] = Append(@, "insert_txn")]
              /\ pc' = [pc EXCEPT ![r] = "except"]
              /\ UNCHANGED <<t_txn, pend_txn, autoInc, loc>>
    /\ UNCHANGED <<config, body, conn, outcome, t_txn_dtl, pend_dtl>>

\* One pass of the inner loop: cursor.execute(insert_dtl, ...) and
\* dtl_id += 1, for unit u + 1 of item i; then the next unit, the next item,
\* or the commit.
Purchase_InsertDtl(r) ==
    /\ pc[r] = "insert_dtl"
    /\ calls' = [calls EXCEPT ![r] = Append(@, "insert_dtl")]
    /\ \E ok \in BOOLEAN :
         IF ok
         THEN LET item == body[r].items[loc[r].i]
                  row == [TRD_ID |-> loc[r].trd_id, DTL_ID |-> loc[r].dtl_id,
                          PRD_ID |-> item.prd_id, PRD_CODE |-> item.prd_code,
                          PRD_NAME |-> item.prd_name,
                          PRD_PRICE |-> item.prd_price, TAX_CD |-> "10"]
                  itemDone == loc[r].u + 1 >= UnitsOf(item)
                  loopDone == itemDone /\ loc[r].i = Len(body[r].items)
              IN  /\ IF Autocommit
                     THEN /\ t_txn_dtl' = Append(t_txn_dtl, row)
                          /\ UNCHANGED pend_dtl
                     ELSE /\ pend_dtl' = [pend_dtl EXCEPT ![r] = Append(@, row)]
                          /\ UNCHANGED t_txn_dtl
                  /\ loc' = [loc EXCEPT ![r] =
                        [@ EXCEPT !.dtl_id = @ + 1,
                                  !.i = IF itemDone THEN @ + 1 ELSE @,
                                  !.u = IF itemDone THEN 0 ELSE @ + 1]]
                  /\ pc' = [pc EXCEPT ![r] =
                        IF loopDone THEN "commit" ELSE "insert_dtl"]
                  /\ UNCHANGED db_errors
         ELSE /\ db_errors' = [db_errors EXCEPT ![r] = Append(@, "insert_dtl")]
              /\ pc' = [pc EXCEPT ![r] = "except"]
              /\ UNCHANGED <<t_txn_dtl, pend_dtl, loc>>
    /\ UNCHANGED <<config, body, conn, outcome, t_txn, pend_txn, autoInc>>

\* conn.commit() and return PurchaseResponse(...).
Purchase_Commit(r) ==
    /\ pc[r] = "commit"
    /\ calls' = [calls EXCEPT ![r] = Append(@, "commit")]
    /\ \E ok \in BOOLEAN :
         IF ok
         THEN /\ t_txn' = t_txn \o pend_txn[r]
              /\ t_txn_dtl' = t_txn_dtl \o pend_dtl[r]
              /\ pend_txn' = [pend_txn EXCEPT ![r] = <<>>]
              /\ pend_dtl' = [pend_dtl EXCEPT ![r] = <<>>]
              /\ outcome' = [outcome EXCEPT ![r] =
                    PurchaseResponse(loc[r].total_amount,
                                     loc[r].total_amount_ex_tax,
                                     loc[r].trd_id)]
              /\ pc' = [pc EXCEPT ![r] = "finally"]
              /\ UNCHANGED db_errors
         ELSE /\ db_errors' = [db_errors EXCEPT ![r] = Append(@, "commit")]
              /\ pc' = [pc EXCEPT ![r] = "except"]
              /\ UNCHANGED <<t_txn, t_txn_dtl, pend_txn, pend_dtl, outcome>>
    /\ UNCHANGED <<config, body, conn, loc, autoInc>>

\* except pymysql.Error as e: conn.rollback() and raise HTTPException(500,
\* ... str(e)).  A rollback that raises pymysql.Error leaves the with body
\* with that error, which is caught around the yield of get_db_connection:
\* the 503 is raised in place of the 500.
Purchase_Rollback(r) ==
    /\ pc[r] = "except"
    /\ calls' = [calls EXCEPT ![r] = Append(@, "rollback")]
    /\ pc' = [pc EXCEPT ![r] = "finally"]
    /\ \E ok \in BOOLEAN :
         IF ok
         THEN /\ pend_txn' = [pend_txn EXCEPT ![r] = <<>>]
              /\ pend_dtl' = [pend_dtl EXCEPT ![r] = <<>>]
              /\ outcome' = [outcome EXCEPT ![r] =
                    PurchaseFailed(db_errors[r][Len(db_errors[r])])]
              /\ UNCHANGED db_errors
         ELSE /\ db_errors' = [db_errors EXCEPT ![r] = Append(@, "rollback")]
              /\ outcome' = [outcome EXCEPT ![r] = DatabaseUnreachable]
              /\ UNCHANGED <<pend_txn, pend_dtl>>
    /\ UNCHANGED <<config, body, conn, loc, t_txn, t_txn_dtl, autoInc>>

(* --------------------------- specifications ---------------------------- *)
Next ==
    \E r \in Reqs :
        \/ Search_Enter(r)
        \/ Search_Query(r)
        \/ Purchase_Enter(r)
        \/ Purchase_InsertTxn(r)
        \/ Purchase_InsertDtl(r)
        \/ Purchase_Commit(r)
        \/ Purchase_Rollback(r)
        \/ Finally(r)

\* One request at a time.
Spec == Init /\ [][Next]_vars

\* NumReq requests, interleaved at their store calls.
SpecConcurrent == InitConcurrent /\ [][Next]_vars

(* ------------------------ vocabulary of the claims --------------------- *)
IsSearch(r) == body[r].kind = "search"

IsPurchase(r) == body[r].kind = "purchase"

\* The request has ended: its response or error has reached the client.
Finished(r) == body[r].kind # "none" /\ pc[r] = "done"

\* The purchase has returned its PurchaseResponse.
Succeeded(r) == IsPurchase(r) /\ Finished(r) /\ outcome[r].success

\* One of the calls in ops raised pymysql.Error in request r.
Raised(r, ops) == \E i \in 1..Len(db_errors[r]) : db_errors[r][i] \in ops

PersistenceFailed(r) == Raised(r, {"insert_txn", "insert_dtl", "commit"})

Count(seq, v) == Cardinality({i \in 1..Len(seq) : seq[i] = v})

RowsOf(table, trd_id) == SelectSeq(table, LAMBDA row : row.TRD_ID = trd_id)

\* The items unit by unit: each item quantity times, in submission order.
RECURSIVE Expand(_)
Expand(items) ==
    IF items = <<>> THEN <<>>
    ELSE [k \in 1..Head(items).quantity |-> Head(items)] \o Expand(Tail(items))

\* The detail rows a purchase of items under trd_id is to leave.
ExpectedDetails(trd_id, items) ==
    [k \in 1..Len(Expand(items)) |->
        [TRD_ID |-> trd_id, DTL_ID |-> k, PRD_ID |-> Expand(items)[k].prd_id,
         PRD_CODE |-> Expand(items)[k].prd_code,
         PRD_NAME |-> Expand(items)[k].prd_name,
         PRD_PRICE |-> Expand(items)[k].prd_price, TAX_CD |-> "10"]]

\* floor(price / 1.1) in exact arithmetic: floor(10 * price / 11).
ExactExTax(items) ==
    SumSeq([i \in 1..Len(items) |->
                ((10 * items[i].prd_price) \div 11) * items[i].quantity])

ExactTotal(items) ==
    SumSeq([i \in 1..Len(items) |-> items[i].prd_price * items[i].quantity])

NonBlank(chars) == \E i \in 1..Len(chars) : chars[i] \notin Whitespace

\* The code without its leading and trailing whitespace.
Trimmed(chars) ==
    LET keep == {i \in 1..Len(chars) : chars[i] \notin Whitespace}
        lo == CHOOSE i \in keep : \A j \in keep : i <= j
        hi == CHOOSE i \in keep : \A j \in keep : i >= j
    IN  IF keep = {} THEN <<>> ELSE SubSeq(chars, lo, hi)

\* The first catalog row of that code, as the product of the response.
ExpectedProduct(code) ==
    LET hits == {i \in 1..Len(m_product) : m_product[i].CODE = code}
        first == CHOOSE i \in hits : \A j \in hits : i <= j
    IN  IF hits = {} THEN <<>>
        ELSE << [prd_id |-> m_product[first].PRD_ID,
                 prd_code |-> m_product[first].CODE,
                 prd_name |-> m_product[first].NAME,
                 prd_price |-> m_product[first].PRICE] >>

AnyConfigEmpty ==
    \E f \in {"DB_HOST", "DB_USER", "DB_PASSWORD", "DB_NAME"} : config[f] = ""

\* The request passes its own input checks and goes on to acquire a
\* connection.
Acquires(r) ==
    \/ IsSearch(r) /\ body[r].code.tag = "str" /\ NonBlank(body[r].code.chars)
    \/ IsPurchase(r) /\ ValidPurchase(body[r])

\* pymysql.connect returned a connection to request r.
Opened(r) == Count(calls[r], "connect") = 1 /\ ~Raised(r, {"connect"})

(* -------------------------------- claims ------------------------------- *)
\* C1: a purchase whose header insert, detail insert or commit raised has,
\* once it has finished, no committed t_txn row and no committed t_txn_dtl
\* row of its trd_id; and in every state each committed detail row's TRD_ID
\* is that of a committed header row.
C1_AllOrNothing ==
    /\ \A r \in Reqs :
         Finished(r) /\ PersistenceFailed(r) =>
            /\ RowsOf(t_txn, loc[r].trd_id) = <<>>
            /\ RowsOf(t_txn_dtl, loc[r].trd_id) = <<>>
    /\ \A i \in 1..Len(t_txn_dtl) :
         \E j \in 1..Len(t_txn) : t_txn[j].TRD_ID = t_txn_dtl[i].TRD_ID

\* C1 witness: a finished purchase whose second or later detail insert
\* raised, while another transaction's rows are committed.
C1_Witness ==
    \E r \in Reqs :
        /\ Finished(r)
        /\ Raised(r, {"insert_dtl"})
        /\ Count(calls[r], "insert_dtl") >= 2
        /\ loc[r].trd_id > 0
        /\ t_txn_dtl # <<>>

\* C2: the committed detail rows of a successful purchase are, in order,
\* one row per unit of each item in submission order, with DTL_ID 1, 2, ...
\* up to the sum of the quantities and the product fields of the unit's item.
C2_DetailRowsPerUnit ==
    \A r \in Reqs :
        Succeeded(r) =>
            RowsOf(t_txn_dtl, outcome[r].transaction_id)
                = ExpectedDetails(outcome[r].transaction_id, body[r].items)

\* C2 witness: a successful purchase of two units of one product followed
\* by another product.
C2_Witness ==
    \E r \in Reqs :
        /\ Succeeded(r)
        /\ Len(body[r].items) = 2
        /\ body[r].items[1].quantity = 2
        /\ body[r].items[1].prd_id # body[r].items[2].prd_id
        /\ Len(RowsOf(t_txn_dtl, outcome[r].transaction_id)) >= 3

\* C3: a successful purchase returns, and stores in its header,
\* total_amount = sum of price * quantity and total_amount_ex_tax = sum of
\* floor(price / 1.1) * quantity, the floor taken per unit price.
C3_TotalsAsSpecified ==
    \A r \in Reqs :
        Succeeded(r) =>
            /\ outcome[r].total_amount = ExactTotal(body[r].items)
            /\ outcome[r].total_amount_ex_tax = ExactExTax(body[r].items)
            /\ \A i \in 1..Len(t_txn) :
                 t_txn[i].TRD_ID = outcome[r].transaction_id =>
                    /\ t_txn[i].TOTAL_AMT = ExactTotal(body[r].items)
                    /\ t_txn[i].TTL_AMT_EX_TAX = ExactExTax(body[r].items)

\* C4: the purchase of 2 units at 108 and 1 unit at 220 returns
\* total_amount 436 and total_amount_ex_tax 396 and leaves exactly three
\* detail rows, DTL_ID 1, 2, 3.
C4_ExampleTotals ==
    \A r \in Reqs :
        /\ Succeeded(r)
        /\ [i \in 1..Len(body[r].items) |->
               <<body[r].items[i].prd_price, body[r].items[i].quantity>>]
             = << <<108, 2>>, <<220, 1>> >>
        => /\ outcome[r].total_amount = 436
           /\ outcome[r].total_amount_ex_tax = 396
           /\ LET rows == RowsOf(t_txn_dtl, outcome[r].transaction_id)
              IN  [i \in 1..Len(rows) |-> rows[i].DTL_ID] = <<1, 2, 3>>

\* C5: a purchase whose header insert, detail insert or commit raised ends
\* with the 500 outcome carrying that error, never the 503 or a success,
\* after exactly one rollback and with no call after the failing one but
\* the rollback and the close.
C5_PersistenceFailureIs500 ==
    \A r \in Reqs :
        Finished(r) /\ PersistenceFailed(r) =>
            /\ outcome[r].status = HTTP_500_INTERNAL_SERVER_ERROR
            /\ outcome[r].detail = "purchase_failed"
            /\ outcome[r].cause = db_errors[r][1]
            /\ Count(calls[r], "rollback") = 1
            /\ calls[r][Len(calls[r]) - 2] = db_errors[r][1]
            /\ SubSeq(calls[r], Len(calls[r]) - 1, Len(calls[r]))
                 = <<"rollback", "close">>

\* C6: a connection is closed at most once and only if it was opened; a
\* finished request has closed the connection it opened exactly once, as
\* its last call, and has closed nothing when none was opened.
C6_ConnectionClosedOnce ==
    \A r \in Reqs :
        /\ Count(calls[r], "connect") <= 1
        /\ Count(calls[r], "close") <= 1
        /\ Count(calls[r], "close") = 1 => Opened(r)
        /\ Finished(r) /\ Opened(r) =>
              /\ Count(calls[r], "close") = 1
              /\ calls[r][Len(calls[r])] = "close"
        /\ Finished(r) /\ ~Opened(r) => Count(calls[r], "close") = 0

\* C6 witness: a finished purchase whose rollback raised, its connection
\* closed once.
C6_Witness ==
    \E r \in Reqs :
        /\ Finished(r)
        /\ Raised(r, {"rollback"})
        /\ Count(calls[r], "close") = 1

\* C7: with host, user, credential or database name empty no request ever
\* calls the store, and a request that goes to acquire a connection ends
\* with the 503 "configuration incomplete"; with all four set and the
\* connect call failing, it ends with the 503 "database unreachable", a
\* different outcome, having made no call but the connect.
C7_ConfigAndConnectFailures ==
    /\ ConfigIncomplete # DatabaseUnreachable
    /\ AnyConfigEmpty => \A r \in Reqs : calls[r] = <<>>
    /\ \A r \in Reqs :
         Finished(r) /\ Acquires(r) =>
            /\ AnyConfigEmpty => outcome[r] = ConfigIncomplete
            /\ ~AnyConfigEmpty /\ Raised(r, {"connect"}) =>
                  /\ outcome[r] = DatabaseUnreachable
                  /\ calls[r] = <<"connect">>

\* C7 witness: a finished request that went to acquire a connection while
\* only the credential was empty.
C7_Witness ==
    \E r \in Reqs :
        /\ Finished(r)
        /\ Acquires(r)
        /\ config.DB_PASSWORD = ""
        /\ config.DB_HOST # "" /\ config.DB_USER # "" /\ config.DB_NAME # ""
        /\ outcome[r] = ConfigIncomplete

\* C8: a lookup writes nothing; with its code missing, empty or all
\* whitespace it ends with the 400 outcome, having acquired no connection
\* and made no call; with a non-blank code whose query ran, it ends with
\* the success outcome holding the first catalog row of the trimmed code,
\* or null when no row has that code.
C8_LookupOutcomes ==
    \A r \in Reqs :
        IsSearch(r) =>
            /\ pend_txn[r] = <<>> /\ pend_dtl[r] = <<>>
            /\ t_txn = <<>> /\ t_txn_dtl = <<>> /\ autoInc = 1
            /\ \A i \in 1..Len(calls[r]) :
                 calls[r][i] \in {"connect", "select", "close"}
            /\ Finished(r) /\ body[r].code.tag \in {"missing", "str"}
                 /\ ~NonBlank(body[r].code.chars) =>
                    /\ outcome[r] = CodeRequired
                    /\ conn[r] = "unacquired"
                    /\ calls[r] = <<>>
            /\ Finished(r) /\ Count(calls[r], "select") = 1
                 /\ ~Raised(r, {"select"}) =>
                    /\ outcome[r].status = HTTP_200_OK
                    /\ outcome[r].product
                         = ExpectedProduct(Trimmed(body[r].code.chars))
                    /\ Len(outcome[r].product) <= 1

\* C8 witness: a finished lookup of a code with whitespace on both sides
\* that two catalog rows share, answered with the first of them.
C8_Witness ==
    \E r \in Reqs :
        /\ IsSearch(r)
        /\ Finished(r)
        /\ body[r].code.chars = <<" ", "a", " ">>
        /\ outcome[r].product # <<>>
        /\ outcome[r].product[1].prd_id = 1

\* C9: the committed header of a successful purchase holds the sentinel
\* "9999999999" as EMP_CD when the request's emp_cd is omitted, null or
\* empty and the request's emp_cd otherwise, and holds store_cd and pos_no
\* as submitted, "30" and "90" when omitted.
C9_HeaderFieldsStored ==
    \A r \in Reqs :
        Succeeded(r) =>
            LET rows == RowsOf(t_txn, outcome[r].transaction_id)
            IN  /\ Len(rows) = 1
                /\ rows[1].EMP_CD =
                     IF body[r].emp_cd \in {Omitted, Null, ""}
                     THEN "9999999999" ELSE body[r].emp_cd
                /\ rows[1].STORE_CD =
                     IF body[r].store_cd = Omitted THEN "30"
                     ELSE body[r].store_cd
                /\ rows[1].POS_NO =
                     IF body[r].pos_no = Omitted THEN "90"
                     ELSE body[r].pos_no

\* C9 witness: a successful purchase whose emp_cd was the empty string and
\* whose pos_no was given.
C9_Witness ==
    \E r \in Reqs :
        /\ Succeeded(r)
        /\ body[r].emp_cd = ""
        /\ body[r].pos_no = "91"
        /\ RowsOf(t_txn, outcome[r].transaction_id) # <<>>

\* C10: under every interleaving, each purchase that has committed has a
\* trd_id of its own, exactly one header row holding the totals of its own
\* items, and as detail rows exactly the units of its own items with DTL_ID
\* 1, 2, ...; and the committed tables hold the rows of the committed
\* purchases only, whatever the other requests did.
C10_Independence ==
    LET Committed(r) == IsPurchase(r) /\ outcome[r].success
        id(r) == outcome[r].transaction_id
    IN  /\ \A r \in Reqs :
             Committed(r) =>
                /\ Len(RowsOf(t_txn, id(r))) = 1
                /\ RowsOf(t_txn, id(r))[1].TOTAL_AMT
                     = ExactTotal(body[r].items)
                /\ RowsOf(t_txn, id(r))[1].TTL_AMT_EX_TAX
                     = outcome[r].total_amount_ex_tax
                /\ outcome[r].total_amount_ex_tax
                     = TotalAmountExTax(body[r].items)
                /\ RowsOf(t_txn_dtl, id(r))
                     = ExpectedDetails(id(r), body[r].items)
        /\ \A r1, r2 \in Reqs :
             Committed(r1) /\ Committed(r2) /\ r1 # r2 => id(r1) # id(r2)
        /\ \A i \in 1..Len(t_txn) :
             \E r \in Reqs : Committed(r) /\ id(r) = t_txn[i].TRD_ID
        /\ \A i \in 1..Len(t_txn_dtl) :
             \E r \in Reqs : Committed(r) /\ id(r) = t_txn_dtl[i].TRD_ID

\* C10 witness: two purchases ran interleaved and both committed, the one
\* that inserted its header later committing first, and every request has
\* finished.
C10_Witness ==
    /\ \A r \in Reqs : Finished(r)
    /\ Len(t_txn) >= 2
    /\ t_txn[1].TRD_ID > t_txn[2].TRD_ID
====
